---- MODULE Spec2Model ----
(***************************************************************************)
(* The distributed request throttle of api/review.py: enforce_rate_limit   *)
(* and the part of handler.do_POST that calls it.  The shared Firestore    *)
(* document admin/rate_limiter is the only state the handlers share.       *)
(* Time is counted in whole seconds.                                       *)
(***************************************************************************)
EXTENDS Integers, Sequences, FiniteSets, TLC

\* ---- program constants (seconds, requests) ----
BURST_GAP == 6
WINDOW_SECONDS == 60
\* a burst limit of 6 requests
BurstLimitLow == BURST_GAP
BURST_LIMIT == 10
\* an except clause that makes the caller wait a whole window
FailClosedDelay == WINDOW_SECONDS
FAIL_OPEN_DELAY == 0
NO_DB_DELAY == 0

\* ---- bounds of the model ----
MaxClock == 60
MaxAttempts == 2
\* the last arrival time when the requests are handled one after the other
LongClock == 120
LiveClock == 6

\* one caller that can be waiting out its delay and one that keeps arriving
Handlers == {1, 2}
\* the steps by which the clock advances between two events
Deltas == {BURST_GAP \div 2, BURST_GAP, WINDOW_SECONDS}

Max(a, b) == IF a >= b THEN a ELSE b

\* a field the document does not have
Missing == -1
Absent == [exists |-> FALSE, last |-> Missing, total |-> Missing, upd |-> Missing]

VARIABLES
    now,        \* time.time()
    record,     \* the document admin/rate_limiter:
                \*   last  = last_request_processed_timestamp
                \*   total = total_request_processed_in_this_minute
                \*   upd   = update_data_at_timestamp
    pc,         \* per handler: position in do_POST
    snap,       \* per handler: the snapshot its transaction read
    ctime,      \* per handler: current_time of its transaction
    stale,      \* per handler: the document was written since the snapshot
    attempts,   \* per handler: transaction attempts that were aborted
    wakeAt,     \* per handler: end of its time.sleep(wait_time)
    arrived,    \* history: current_time of the latest committed call, or Missing
    ret,        \* per handler: how its enforce_rate_limit call returned
    burst,      \* history: n if the n committed calls so far were all < 6 s apart, else 0
    spaced,     \* history: the committed calls so far were all >= 6 s apart
    satStart,   \* history: start of the window in which burst exceeded BURST_LIMIT, or Missing
    counted,    \* history: committed calls since the last window reset
    released,   \* history: when the latest caller that was made to wait is released, or Missing
    earlier,    \* history: when the caller made to wait before that one was released, or Missing
    horizon     \* the last time at which a request arrives

vars == <<now, record, pc, snap, ctime, stale, attempts, wakeAt, ret,
          arrived, burst, spaced, satStart, counted, released, earlier, horizon>>

hist == <<arrived, burst, spaced, satStart, counted, released, earlier, horizon>>
txn == <<snap, ctime, stale, attempts>>

\* data.get(key, default)
Get(field, default) == IF field = Missing THEN default ELSE field

\* update_at with the default 0 of the other two fields
update_at_zero(snapshot, current_time) == Get(snapshot.upd, 0)

last_req(snapshot) == Get(snapshot.last, 0)
total_req(snapshot) == Get(snapshot.total, 0)
update_at(snapshot, current_time) == Get(snapshot.upd, current_time)

\* sleep_duration = max(0, 60 - (current_time - update_at))
sleep_duration_full(snapshot, current_time) == WINDOW_SECONDS

\* sleep_duration = max(0, 60 - (current_time - update_at))
sleep_duration(snapshot, current_time) ==
    Max(0, WINDOW_SECONDS - (current_time - update_at(snapshot, current_time)))

\* a burst guard that looks at the count alone
BranchNoGap(snapshot, current_time) ==
    IF ~snapshot.exists THEN "create"
    ELSE IF total_req(snapshot) > BURST_LIMIT THEN "defer"
    ELSE IF (current_time - last_req(snapshot)) < BURST_GAP THEN "burst"
    ELSE IF (current_time - update_at(snapshot, current_time)) >= WINDOW_SECONDS
         THEN "expire" ELSE "continue"

\* the burst guard with >= in place of >
BranchGE(snapshot, current_time) ==
    IF ~snapshot.exists THEN "create"
    ELSE IF (current_time - last_req(snapshot)) < BURST_GAP
         THEN IF total_req(snapshot) >= BURST_LIMIT THEN "defer" ELSE "burst"
         ELSE IF (current_time - update_at(snapshot, current_time)) >= WINDOW_SECONDS
              THEN "expire" ELSE "continue"

\* the branch _transaction takes on a snapshot
Branch(snapshot, current_time) ==
    IF ~snapshot.exists THEN "create"
    ELSE IF (current_time - last_req(snapshot)) < BURST_GAP
         THEN IF total_req(snapshot) > BURST_LIMIT THEN "defer" ELSE "burst"
         ELSE IF (current_time - update_at(snapshot, current_time)) >= WINDOW_SECONDS
              THEN "expire" ELSE "continue"

\* a window that opens at time t with one admission
Fresh(t) == [exists |-> TRUE, last |-> t, total |-> 1, upd |-> t]

\* a first call that opens the window with a count of 0
OnCreateZero(current_time) ==
    [doc |-> [Fresh(current_time) EXCEPT !.total = 0], ret |-> 0]

\* if not snapshot.exists: transaction.set(...); return 0
OnCreate(current_time) ==
    [doc |-> Fresh(current_time), ret |-> 0]

\* a deferral that restarts the count at 0
OnDeferZero(snapshot, current_time) ==
    LET d == sleep_duration(snapshot, current_time)
    IN [doc |-> [snapshot EXCEPT !.last = current_time + d, !.total = 0,
                                 !.upd = current_time + d],
        ret |-> d]

\* a deferral that counts the 60 s from the arrival of the call
OnDeferFromNow(snapshot, current_time) ==
    [doc |-> [snapshot EXCEPT !.last = current_time + WINDOW_SECONDS, !.total = 1,
                              !.upd = current_time + WINDOW_SECONDS],
     ret |-> WINDOW_SECONDS]

\* total_req > 10: the window restarts after the delay
OnDefer(snapshot, current_time) ==
    LET d == sleep_duration(snapshot, current_time)
    IN [doc |-> [snapshot EXCEPT !.last = current_time + d, !.total = 1,
                                 !.upd = current_time + d],
        ret |-> d]

\* a burst admission that also moves the window start
OnBurstRestarts(snapshot, current_time) ==
    [doc |-> [snapshot EXCEPT !.last = current_time, !.total = total_req(snapshot) + 1,
                              !.upd = current_time],
     ret |-> 0]

\* total_req <= 10: update() of two fields, update_data_at_timestamp is kept
OnBurst(snapshot, current_time) ==
    [doc |-> [snapshot EXCEPT !.last = current_time, !.total = total_req(snapshot) + 1],
     ret |-> 0]

\* the window expires only after more than 60 s
new_total_late(snapshot, current_time) ==
    IF (current_time - update_at(snapshot, current_time)) > WINDOW_SECONDS
    THEN 1 ELSE total_req(snapshot) + 1

new_total(snapshot, current_time) ==
    IF (current_time - update_at(snapshot, current_time)) >= WINDOW_SECONDS
    THEN 1 ELSE total_req(snapshot) + 1

new_ts(snapshot, current_time) ==
    IF (current_time - update_at(snapshot, current_time)) >= WINDOW_SECONDS
    THEN current_time ELSE update_at(snapshot, current_time)

\* the else branch with sleep_duration computed before the branches
OnElseSleeps(snapshot, current_time) ==
    [doc |-> [snapshot EXCEPT !.last = current_time,
                              !.total = new_total(snapshot, current_time),
                              !.upd = new_ts(snapshot, current_time)],
     ret |-> sleep_duration(snapshot, current_time)]

\* (current_time - last_req) >= 6: update() of the three fields
OnElse(snapshot, current_time) ==
    [doc |-> [snapshot EXCEPT !.last = current_time,
                              !.total = new_total(snapshot, current_time),
                              !.upd = new_ts(snapshot, current_time)],
     ret |-> 0]

\* the body of _transaction: the document it writes and the value it returns
Transaction(snapshot, current_time) ==
    LET b == Branch(snapshot, current_time)
    IN CASE b = "create" -> OnCreate(current_time)
         [] b = "defer" -> OnDefer(snapshot, current_time)
         [] b = "burst" -> OnBurst(snapshot, current_time)
         [] OTHER -> OnElse(snapshot, current_time)

\* what a snapshot holds: no document, a document with its three fields,
\* with none of them, or with some of them
Shape(snapshot) ==
    LET present == {f \in {"last", "total", "upd"} : snapshot[f] # Missing}
    IN IF ~snapshot.exists THEN "absent"
       ELSE IF Cardinality(present) = 3 THEN "full"
       ELSE IF present = {} THEN "empty" ELSE "partial"

NoRet == [kind |-> "none", wait_time |-> 0, tries |-> 0, saw |-> "none"]

Init ==
    /\ now = 0
    /\ record = Absent
    /\ pc = [h \in Handlers |-> "idle"]
    /\ snap = [h \in Handlers |-> Absent]
    /\ ctime = [h \in Handlers |-> 0]
    /\ stale = [h \in Handlers |-> FALSE]
    /\ attempts = [h \in Handlers |-> 0]
    /\ wakeAt = [h \in Handlers |-> 0]
    /\ ret = [h \in Handlers |-> NoRet]
    /\ arrived = Missing
    /\ burst = 0
    /\ spaced = TRUE
    /\ satStart = Missing
    /\ counted = 0
    /\ released = Missing
    /\ earlier = Missing
    /\ horizon = MaxClock

\* the time of the next event: d seconds after the latest one; a transaction
\* attempt is shorter than one clock step
Later(d) ==
    /\ d \in Deltas \cup {0}
    /\ d > 0 => \A h \in Handlers : pc[h] # "txn"
    /\ now + d <= horizon

\* enforce_rate_limit returns wait_time to do_POST:
\* if wait_time > 0: time.sleep(wait_time)
Returned(h, wait_time, kind) ==
    /\ pc' = [pc EXCEPT ![h] = IF wait_time > 0 THEN "sleep" ELSE "ai"]
    /\ wakeAt' = [wakeAt EXCEPT ![h] = IF wait_time > 0 THEN now + wait_time ELSE 0]
    /\ ret' = [ret EXCEPT ![h] = [kind |-> kind, wait_time |-> wait_time,
                                  tries |-> attempts[h],
                                  saw |-> IF kind = "commit" THEN Shape(snap[h])
                                          ELSE "none"]]
    /\ snap' = [snap EXCEPT ![h] = Absent]
    /\ ctime' = [ctime EXCEPT ![h] = 0]
    /\ attempts' = [attempts EXCEPT ![h] = 0]

\* do_POST reaches the throttle and get_firebase_db returns None:
\* enforce_rate_limit returns 0 at once
RequestNoDb(h) ==
    /\ pc[h] = "idle"
    /\ record' = record
    /\ Returned(h, NO_DB_DELAY, "nodb")
    /\ UNCHANGED <<now, stale, hist>>

\* do_POST reaches the throttle with a client; _transaction reads the
\* snapshot and the clock
TxnBegin(h) ==
    /\ pc[h] = "idle"
    /\ \E d \in Deltas \cup {0} :
         /\ Later(d)
         /\ now' = now + d
    /\ pc' = [pc EXCEPT ![h] = "txn"]
    /\ snap' = [snap EXCEPT ![h] = record]
    /\ ctime' = [ctime EXCEPT ![h] = now']
    /\ stale' = [stale EXCEPT ![h] = FALSE]
    /\ UNCHANGED <<record, attempts, wakeAt, ret, hist>>

\* a store that accepts every commit
CommitAlways(h) == TRUE

\* the store accepts a commit only if the document was not written since the read
CanCommit(h) == ~stale[h]

Resets(b) == b \in {"create", "defer", "expire"}

\* the transaction of h commits: the document is written, the delay returned
TxnCommit(h) ==
    /\ pc[h] = "txn"
    /\ CanCommit(h)
    /\ LET s == snap[h]
           ct == ctime[h]
           t == Transaction(s, ct)
           first == arrived = Missing
           dense == ~first /\ ct - arrived < BURST_GAP
           newburst == IF first THEN (IF s.exists THEN 0 ELSE 1)
                       ELSE IF burst > 0 /\ burst < 13 /\ dense
                            THEN burst + 1 ELSE 0
       IN /\ record' = t.doc
          /\ Returned(h, t.ret, "commit")
          /\ arrived' = ct
          /\ burst' = newburst
          /\ spaced' = (spaced /\ ~dense)
          /\ satStart' = IF newburst = 11 THEN t.doc.upd
                         ELSE IF newburst = 0 THEN Missing ELSE satStart
          /\ counted' = IF Resets(Branch(record, ct)) THEN 1 ELSE counted + 1
          /\ released' = IF t.ret > 0 THEN now + t.ret ELSE released
          /\ earlier' = IF t.ret > 0 THEN released ELSE earlier
    /\ stale' = [g \in Handlers |-> g # h /\ pc[g] = "txn"]
    /\ UNCHANGED <<now, horizon>>

\* the commit is aborted because of a concurrent write: the decorator runs
\* _transaction again, which reads the snapshot and the clock again
TxnRetry(h) ==
    /\ pc[h] = "txn"
    /\ ~CanCommit(h)
    /\ attempts[h] + 1 < MaxAttempts
    /\ attempts' = [attempts EXCEPT ![h] = attempts[h] + 1]
    /\ snap' = [snap EXCEPT ![h] = record]
    /\ ctime' = [ctime EXCEPT ![h] = now]
    /\ stale' = [stale EXCEPT ![h] = FALSE]
    /\ UNCHANGED <<now, record, pc, wakeAt, ret, hist>>

\* the commit is aborted and no attempt is left: the decorator raises, and
\* enforce_rate_limit catches it
TxnExhausted(h) ==
    /\ pc[h] = "txn"
    /\ ~CanCommit(h)
    /\ attempts[h] + 1 >= MaxAttempts
    /\ record' = record
    /\ Returned(h, FAIL_OPEN_DELAY, "raise")
    /\ stale' = [stale EXCEPT ![h] = FALSE]
    /\ UNCHANGED <<now, hist>>

\* an exception of the store that leaves enforce_rate_limit and ends the request
TxnRaisePropagates(h) ==
    /\ pc[h] = "txn"
    /\ pc' = [pc EXCEPT ![h] = "idle"]
    /\ snap' = [snap EXCEPT ![h] = Absent]
    /\ ctime' = [ctime EXCEPT ![h] = 0]
    /\ attempts' = [attempts EXCEPT ![h] = 0]
    /\ stale' = [stale EXCEPT ![h] = FALSE]
    /\ UNCHANGED <<now, record, wakeAt, ret, hist>>

\* the store is unreachable during the read or the commit: the exception is
\* caught by enforce_rate_limit
TxnRaise(h) ==
    /\ pc[h] = "txn"
    /\ record' = record
    /\ Returned(h, FAIL_OPEN_DELAY, "raise")
    /\ stale' = [stale EXCEPT ![h] = FALSE]
    /\ UNCHANGED <<now, hist>>

\* a sleep that returns at once
WakeEarly(h) ==
    /\ pc[h] = "sleep"
    /\ \A g \in Handlers : pc[g] # "txn"
    /\ now' = now
    /\ pc' = [pc EXCEPT ![h] = "ai"]
    /\ wakeAt' = [wakeAt EXCEPT ![h] = 0]
    /\ UNCHANGED <<record, txn, ret, hist>>

\* time.sleep returns
Wake(h) ==
    /\ pc[h] = "sleep"
    /\ \A g \in Handlers : pc[g] # "txn"
    /\ now' = Max(now, wakeAt[h])
    /\ pc' = [pc EXCEPT ![h] = "ai"]
    /\ wakeAt' = [wakeAt EXCEPT ![h] = 0]
    /\ UNCHANGED <<record, txn, ret, hist>>

\* a handler that deletes the throttle's document when the Gemini call is over
CallGeminiUndoes(h) ==
    /\ pc[h] = "ai"
    /\ pc' = [pc EXCEPT ![h] = "idle"]
    /\ ret' = [ret EXCEPT ![h] = NoRet]
    /\ record' = Absent
    /\ UNCHANGED <<now, txn, wakeAt, hist>>

\* the Gemini call and the response; a failure is logged by log_error, which
\* writes to admin/config/logs and not to the throttle's document
CallGemini(h) ==
    /\ pc[h] = "ai"
    /\ pc' = [pc EXCEPT ![h] = "idle"]
    /\ ret' = [ret EXCEPT ![h] = NoRet]
    /\ UNCHANGED <<now, record, txn, wakeAt, hist>>

Next ==
    \/ \E h \in Handlers :
         \/ RequestNoDb(h)
         \/ TxnBegin(h)
         \/ TxnCommit(h)
         \/ TxnRetry(h)
         \/ TxnExhausted(h)
         \/ TxnRaise(h)
         \/ Wake(h)
         \/ CallGemini(h)

Spec == Init /\ [][Next]_vars

\* ---- progress of one request ----
\* requests arrive during the first LiveClock seconds
InitLive ==
    /\ now = 0
    /\ record = Absent
    /\ pc = [h \in Handlers |-> "idle"]
    /\ snap = [h \in Handlers |-> Absent]
    /\ ctime = [h \in Handlers |-> 0]
    /\ stale = [h \in Handlers |-> FALSE]
    /\ attempts = [h \in Handlers |-> 0]
    /\ wakeAt = [h \in Handlers |-> 0]
    /\ ret = [h \in Handlers |-> NoRet]
    /\ arrived = Missing
    /\ burst = 0
    /\ spaced = TRUE
    /\ satStart = Missing
    /\ counted = 0
    /\ released = Missing
    /\ earlier = Missing
    /\ horizon = LiveClock

\* transaction.run(...) ends: it commits, runs _transaction again, or raises
\* into the except clause of enforce_rate_limit
TxnEnds(h) == TxnCommit(h) \/ TxnRetry(h) \/ TxnExhausted(h) \/ TxnRaise(h)

\* every handler is a thread of its own: a started transaction ends, and
\* time.sleep(wait_time) returns however often other handlers are in a
\* transaction
Fairness ==
    \A h \in Handlers : WF_vars(TxnEnds(h)) /\ SF_vars(Wake(h))

SpecLive == InitLive /\ [][Next]_vars /\ Fairness

\* ---- one handler over two minutes ----
\* requests arrive during the first LongClock seconds
InitLong ==
    /\ now = 0
    /\ record = Absent
    /\ pc = [h \in Handlers |-> "idle"]
    /\ snap = [h \in Handlers |-> Absent]
    /\ ctime = [h \in Handlers |-> 0]
    /\ stale = [h \in Handlers |-> FALSE]
    /\ attempts = [h \in Handlers |-> 0]
    /\ wakeAt = [h \in Handlers |-> 0]
    /\ ret = [h \in Handlers |-> NoRet]
    /\ arrived = Missing
    /\ burst = 0
    /\ spaced = TRUE
    /\ satStart = Missing
    /\ counted = 0
    /\ released = Missing
    /\ earlier = Missing
    /\ horizon = LongClock

\* ---- documents that lack fields ----
FieldTimes == {0, WINDOW_SECONDS - BURST_GAP \div 2}
FieldCounts == {1, BURST_LIMIT + 1}
MalformedRecords ==
    {r \in [exists : {TRUE}, last : FieldTimes \cup {Missing},
            total : FieldCounts \cup {Missing}, upd : FieldTimes \cup {Missing}] :
       Shape(r) \in {"empty", "partial"}}

\* the document was edited out of band before the first request
InitMalformed ==
    /\ now = 0
    /\ record \in MalformedRecords
    /\ pc = [h \in Handlers |-> "idle"]
    /\ snap = [h \in Handlers |-> Absent]
    /\ ctime = [h \in Handlers |-> 0]
    /\ stale = [h \in Handlers |-> FALSE]
    /\ attempts = [h \in Handlers |-> 0]
    /\ wakeAt = [h \in Handlers |-> 0]
    /\ ret = [h \in Handlers |-> NoRet]
    /\ arrived = Missing
    /\ burst = 0
    /\ spaced = TRUE
    /\ satStart = Missing
    /\ counted = 0
    /\ released = Missing
    /\ earlier = Missing
    /\ horizon = MaxClock

\* requests handled one after the other
NextSolo ==
    \E h \in {1} :
         \/ RequestNoDb(h)
         \/ TxnBegin(h)
         \/ TxnCommit(h)
         \/ TxnRaise(h)
         \/ Wake(h)
         \/ CallGemini(h)

SpecMalformed == InitMalformed /\ [][NextSolo]_vars

SpecLong == InitLong /\ [][NextSolo]_vars

\* ---- the steps the claims speak of ----
\* the step in which the transaction of h commits
CommitStep(h) == pc[h] = "txn" /\ ret'[h].kind = "commit"
\* the step in which enforce_rate_limit returns to h without a commit
FailStep(h) == pc[h] \in {"idle", "txn"} /\ ret'[h].kind \in {"nodb", "raise"}

\* C1 as stated: in a run of calls less than 6 s apart that starts from an
\* absent record, the 11th call returns max(0, 60 - (now - T)) for the window
\* start T and leaves windowCount = 1 and windowStart = now + delay.
C1_EleventhCallDeferred ==
    [][\A h \in Handlers :
         CommitStep(h) /\ burst' = 11 =>
           /\ ret'[h].wait_time = Max(0, WINDOW_SECONDS - (ctime[h] - record.upd))
           /\ record'.total = 1
           /\ record'.upd = ctime[h] + ret'[h].wait_time]_vars

\* C1 amended: it is the 12th call of such a run that returns
\* max(0, 60 - (now - T)) and leaves windowCount = 1, windowStart = now + delay;
\* the 11th call returns 0 and leaves windowCount = 11.
C1_TwelfthCallDeferred ==
    [][\A h \in Handlers :
         /\ CommitStep(h) /\ burst' = 12 =>
              /\ ret'[h].wait_time = Max(0, WINDOW_SECONDS - (ctime[h] - record.upd))
              /\ record'.total = 1
              /\ record'.upd = ctime[h] + ret'[h].wait_time
         /\ CommitStep(h) /\ burst' = 11 =>
              /\ ret'[h].wait_time = 0
              /\ record'.total = 11]_vars

C1_Witness ==
    /\ burst = 12
    /\ record.total = 1
    /\ \E h \in Handlers :
         /\ pc[h] = "sleep"
         /\ ret[h].kind = "commit"
         /\ ret[h].wait_time > 0
         /\ ret[h].wait_time < WINDOW_SECONDS
         /\ record.upd = arrived + ret[h].wait_time

\* C2: whenever the record exists, windowStart <= lastAdmitTime.
C2_WindowStartBeforeLastAdmit ==
    record.exists => record.upd <= record.last

\* C3: every delay enforce_rate_limit returns is between 0 and WINDOW_SECONDS.
C3_DelayBounded ==
    \A h \in Handlers : ret[h].wait_time >= 0 /\ ret[h].wait_time <= WINDOW_SECONDS

\* C4: once more than 10 closely spaced requests were counted in a window
\* that started at satStart, every later request that arrives less than 6 s
\* after its predecessor and less than 60 s after satStart gets a positive delay.
C4_SaturatedWindowDefers ==
    [][\A h \in Handlers :
         (/\ CommitStep(h)
          /\ satStart # Missing
          /\ ctime[h] - arrived < BURST_GAP
          /\ ctime[h] - satStart < WINDOW_SECONDS)
         => ret'[h].wait_time > 0]_vars

\* C5: no lost update: every committed call sets windowCount to 1 when the
\* policy restarts the window on the stored record and adds exactly 1 to the
\* stored windowCount otherwise, so windowCount is the number of calls
\* committed since the last restart.
C5_NoLostUpdate ==
    [][\A h \in Handlers :
         CommitStep(h) =>
           /\ record'.total = counted'
           /\ IF Resets(Branch(record, ctime[h]))
              THEN record'.total = 1
              ELSE record'.total = record.total + 1]_vars

C5_Witness ==
    /\ \A h \in Handlers : ret[h].kind = "commit"
    /\ \E h \in Handlers : ret[h].tries > 0
    /\ record.total = 2
    /\ counted = 2

\* C6: fail-open: when there is no store handle or the transaction raises,
\* enforce_rate_limit returns 0, the handler goes on to the AI call without
\* sleeping, and the document is not changed.
C6_FailOpen ==
    [][\A h \in Handlers :
         FailStep(h) =>
           /\ ret'[h].wait_time = 0
           /\ pc'[h] = "ai"
           /\ record' = record]_vars

C6_Witness ==
    /\ record.exists
    /\ \E h, g \in Handlers :
         /\ ret[h].kind = "raise" /\ ret[h].tries = MaxAttempts - 1 /\ pc[h] = "ai"
         /\ ret[g].kind = "nodb" /\ pc[g] = "ai"

\* C7: while every committed call so far arrived at least 6 s after the
\* one before it, every call returns delay 0.
C7_SparseNeverWaits ==
    [][\A h \in Handlers :
         CommitStep(h) /\ spaced' => ret'[h].wait_time = 0 /\ pc'[h] = "ai"]_vars

C7_Witness ==
    /\ spaced
    /\ record.exists
    /\ record.total = BURST_LIMIT
    /\ \E h \in Handlers : ret[h].kind = "commit" /\ ret[h].wait_time = 0

\* C8 as stated: a call that finds a document lacking any of its three
\* fields returns 0 and leaves a fresh window, windowCount = 1 and
\* windowStart = lastAdmitTime = now.
C8_MalformedAsAbsent ==
    [][\A h \in Handlers :
         CommitStep(h) /\ Shape(record) \in {"empty", "partial"} =>
           /\ ret'[h].wait_time = 0
           /\ record' = Fresh(ctime[h])]_vars

\* C8 amended: a call at a time now >= 6 that finds a document lacking all
\* three fields returns 0 and leaves a fresh window, windowCount = 1 and
\* windowStart = lastAdmitTime = now.
C8_EmptyAsAbsent ==
    [][\A h \in Handlers :
         CommitStep(h) /\ Shape(record) = "empty" /\ ctime[h] >= BURST_GAP =>
           /\ ret'[h].wait_time = 0
           /\ record' = Fresh(ctime[h])]_vars

C8_Witness ==
    /\ arrived # Missing
    /\ arrived >= BURST_GAP
    /\ arrived < WINDOW_SECONDS
    /\ record = Fresh(arrived)
    /\ \E h \in Handlers :
         ret[h].kind = "commit" /\ ret[h].saw = "empty" /\ ret[h].wait_time = 0

\* C9: a call that finds no record returns 0 and creates the record with
\* windowCount = 1 and lastAdmitTime = windowStart = now.
C9_FirstCallCreates ==
    [][\A h \in Handlers :
         CommitStep(h) /\ ~record.exists =>
           /\ ret'[h].wait_time = 0
           /\ record' = Fresh(ctime[h])]_vars

C9_Witness ==
    /\ burst = 1
    /\ arrived > 0
    /\ record = Fresh(arrived)
    /\ \E h \in Handlers :
         ret[h].kind = "commit" /\ ret[h].saw = "absent" /\ ret[h].wait_time = 0

\* C10: in a run of calls less than 6 s apart that starts from an absent
\* record, each of the first 10 calls returns 0, and the n-th of them leaves
\* windowCount = n, so windowCount is 10 after the 10th.
C10_BurstAdmitsTen ==
    [][\A h \in Handlers :
         CommitStep(h) /\ burst' \in 1..10 =>
           /\ ret'[h].wait_time = 0
           /\ record'.total = burst']_vars

C10_Witness ==
    /\ burst = 10
    /\ record.total = 10
    /\ arrived > record.upd
    /\ \E h \in Handlers : ret[h].kind = "commit" /\ ret[h].wait_time = 0 /\ pc[h] = "ai"

\* C11: a call that arrives 60 s or more after windowStart and 6 s or more
\* after lastAdmitTime returns 0 and leaves windowCount = 1 and
\* windowStart = lastAdmitTime = now.
C11_NaturalExpiry ==
    [][\A h \in Handlers :
         (/\ CommitStep(h)
          /\ record.exists
          /\ ctime[h] - record.upd >= WINDOW_SECONDS
          /\ ctime[h] - record.last >= BURST_GAP)
         => /\ ret'[h].wait_time = 0
            /\ record' = Fresh(ctime[h])]_vars

C11_Witness ==
    /\ spaced
    /\ counted = 1
    /\ arrived = WINDOW_SECONDS
    /\ record = Fresh(arrived)
    /\ \E h \in Handlers :
         ret[h].kind = "commit" /\ ret[h].saw = "full" /\ ret[h].wait_time = 0

\* C12: whenever the record exists, windowCount >= 1.
C12_CountAtLeastOne ==
    record.exists => record.total >= 1

C12_Witness ==
    /\ record.exists
    /\ record.total = 1
    /\ \E h \in Handlers : pc[h] = "sleep" /\ wakeAt[h] = record.upd

\* the step in which enforce_rate_limit returns to h
ReturnStep(h) == pc[h] \in {"idle", "txn"} /\ pc'[h] \in {"sleep", "ai"}

\* C13 as stated: every call of enforce_rate_limit writes the document when
\* it returns, and no other step of a handler changes the document.
C13_EveryRequestWritesOnce ==
    [][/\ \A h \in Handlers : ReturnStep(h) => record' # record
       /\ record' # record => \E h \in Handlers : ReturnStep(h)]_vars

\* C13 amended: a call whose transaction commits writes the document in that
\* step, a call that fails open does not write it, and no other step of a
\* handler (a read, an aborted attempt, the sleep, the AI call and its error
\* handling) changes the document.
C13_CommittedRequestWritesOnce ==
    [][/\ \A h \in Handlers :
            /\ CommitStep(h) => record' # record
            /\ FailStep(h) => record' = record
       /\ record' # record => \E h \in Handlers : CommitStep(h)]_vars

C13_Witness ==
    /\ record.exists
    /\ record.total = 1
    /\ record.upd = released
    /\ \E h \in Handlers :
         /\ pc[h] = "ai"
         /\ ret[h].kind = "commit"
         /\ ret[h].wait_time > 0
         /\ now = released

\* C14: a handler sleeps only after its transaction has committed on the
\* stored document, it starts the AI call without a sleep only when the
\* delay is 0 and otherwise only when the sleep is over, and a commit made
\* while another handler sleeps is computed from the document that handler left.
C14_CommitThenWaitThenCall ==
    [][\A h \in Handlers :
         /\ pc[h] # "sleep" /\ pc'[h] = "sleep" =>
              /\ CommitStep(h)
              /\ wakeAt'[h] = now' + ret'[h].wait_time
         /\ CommitStep(h) => record' = Transaction(record, ctime[h]).doc
         /\ pc[h] # "ai" /\ pc'[h] = "ai" =>
              IF pc[h] = "sleep" THEN now' >= wakeAt[h] ELSE ret'[h].wait_time = 0]_vars

C14_Witness ==
    \E h, g \in Handlers :
         /\ pc[h] = "sleep"
         /\ now < wakeAt[h]
         /\ pc[g] = "ai"
         /\ ret[g].kind = "commit"
         /\ record.upd = wakeAt[h]
         /\ record.last = arrived
         /\ record.total = 2

\* C15: a call that arrives at least 6 s after the arrival of the previous
\* call returns 0, whatever the count and also while a deferred caller sleeps.
C15_SpacedCallAdmitted ==
    [][\A h \in Handlers :
         (/\ CommitStep(h)
          /\ arrived # Missing
          /\ ctime[h] - arrived >= BURST_GAP)
         => ret'[h].wait_time = 0]_vars

C15_Witness ==
    \E h, g \in Handlers :
         /\ pc[h] = "sleep"
         /\ now < wakeAt[h]
         /\ ret[g].kind = "commit"
         /\ ret[g].wait_time = 0
         /\ arrived - (wakeAt[h] - ret[h].wait_time) >= BURST_GAP
         /\ record.upd = wakeAt[h]
         /\ record.last = arrived
         /\ record.total > 1

\* C16: on an existing record the call returns a positive delay exactly when
\* now - lastAdmitTime < 6, windowCount > 10 and now - windowStart < 60; and
\* whenever now - lastAdmitTime < 6 and windowCount > 10 it returns
\* delay = max(0, 60 - (now - windowStart)) and the record becomes
\* windowStart = lastAdmitTime = now + delay with windowCount = 1.
C16_DeferralExactly ==
    [][\A h \in Handlers :
         CommitStep(h) =>
           LET ct == ctime[h]
               guard == /\ record.exists
                        /\ ct - record.last < BURST_GAP
                        /\ record.total > BURST_LIMIT
               delay == Max(0, WINDOW_SECONDS - (ct - record.upd))
           IN /\ ret'[h].wait_time > 0 <=>
                   (guard /\ ct - record.upd < WINDOW_SECONDS)
              /\ guard => /\ ret'[h].wait_time = delay
                          /\ record' = Fresh(ct + delay)]_vars

C16_Witness ==
    \E h \in Handlers :
         /\ pc[h] = "sleep"
         /\ ret[h].wait_time > 0
         /\ ret[h].wait_time < WINDOW_SECONDS
         /\ record = Fresh(now + ret[h].wait_time)
         /\ wakeAt[h] = now + ret[h].wait_time

\* C17: in both window-continuing branches (now - lastAdmitTime < 6 with
\* windowCount <= 10, and now - lastAdmitTime >= 6 with now - windowStart < 60)
\* the call leaves windowStart unchanged, sets lastAdmitTime = now, adds 1 to
\* windowCount and returns 0.
C17_ContinuingKeepsWindowStart ==
    [][\A h \in Handlers :
         (/\ CommitStep(h)
          /\ record.exists
          /\ \/ ctime[h] - record.last < BURST_GAP /\ record.total <= BURST_LIMIT
             \/ /\ ctime[h] - record.last >= BURST_GAP
                /\ ctime[h] - record.upd < WINDOW_SECONDS)
         => /\ record' = [record EXCEPT !.last = ctime[h], !.total = record.total + 1]
            /\ ret'[h].wait_time = 0]_vars

C17_Witness ==
    /\ record.exists
    /\ record.upd = 0
    /\ record.last = BURST_GAP + BURST_GAP \div 2
    /\ record.total = 3
    /\ arrived = record.last
    /\ \E h \in Handlers : ret[h].kind = "commit" /\ ret[h].wait_time = 0

\* C18: a call that arrives 60 s or more after windowStart never increments
\* the existing windowCount; it starts a new window with windowCount = 1.
C18_LateCallStartsNewWindow ==
    [][\A h \in Handlers :
         (/\ CommitStep(h)
          /\ record.exists
          /\ ctime[h] - record.upd >= WINDOW_SECONDS)
         => /\ record'.total = 1
            /\ record'.upd >= ctime[h]]_vars

\* C19: every request that reaches the throttle, with the store absent,
\* failing or healthy, gets a delay from enforce_rate_limit and eventually
\* reaches the AI call.
C19_RequestReachesAI ==
    \A h \in Handlers : (pc[h] \in {"txn", "sleep"}) ~> (pc[h] = "ai")

C19_Witness ==
    \E h, g \in Handlers :
         /\ pc[h] = "ai"
         /\ ret[h].kind = "commit"
         /\ ret[h].wait_time > 0
         /\ now >= released
         /\ pc[g] = "ai"
         /\ ret[g].kind \in {"nodb", "raise"}

\* C20 as stated: whenever the deferral returns a positive delay the new
\* windowStart is the old windowStart + 60, and the caller is released
\* exactly 60 s after the caller deferred before it.
C20_ReleasesSixtyApart ==
    [][\A h \in Handlers :
         (CommitStep(h) /\ ret'[h].wait_time > 0)
         => /\ record'.upd = record.upd + WINDOW_SECONDS
            /\ released # Missing => released' - released = WINDOW_SECONDS]_vars

\* C20 amended: whenever the deferral returns a positive delay the new
\* windowStart is the old windowStart + 60 and is the time at which the caller
\* is released; the release is exactly 60 s after the previous deferred
\* caller's release when the stored windowStart is still that release time,
\* and at least 120 s after it otherwise.
C20_DeferralAdvancesWindow ==
    [][\A h \in Handlers :
         (CommitStep(h) /\ ret'[h].wait_time > 0)
         => /\ record'.upd = record.upd + WINDOW_SECONDS
            /\ released' = record'.upd
            /\ released' = ctime[h] + ret'[h].wait_time
            /\ released # Missing =>
                 IF record.upd = released
                 THEN released' - released = WINDOW_SECONDS
                 ELSE released' - released >= 2 * WINDOW_SECONDS]_vars

C20_Witness ==
    /\ earlier # Missing
    /\ released - earlier = WINDOW_SECONDS
    /\ record = Fresh(released)
    /\ \E h \in Handlers :
         /\ pc[h] = "sleep"
         /\ wakeAt[h] = released
         /\ ret[h].wait_time > 0
====
